---- MODULE Spec2Model ----
(***************************************************************************)
(* Social-media downloader: platform classification, metadata resolution   *)
(* with adapter fallback, and download-to-disk with cleanup.               *)
(*                                                                         *)
(* The repository holds several service modules (iterative rewrites of     *)
(* downloader.service).  The ones modelled here are                        *)
(*   "ytdlp"   src/unnamed/part_003 lines 183-652 (play-dl + yt-dlp),      *)
(*   "scraper" src/unnamed/part_005 lines 1-573   (ytdl-core + scrapers),  *)
(*   "direct"  src/unnamed/part_005 lines 574-821 (oEmbed + direct urls),  *)
(*   "spawn"   src/social-downloader-api/src/routes/downloader.routes.js   *)
(*             lines 161-357 (yt-dlp through spawn).                       *)
(* Strings are sequences of one-character strings so that toLowerCase and  *)
(* includes are computed, not assumed.                                     *)
(***************************************************************************)
EXTENDS Integers, Sequences, FiniteSets, TLC

\* ------------------------------------------------------------------ bounds
\* Number of parts a sample URL of the classifier check is built from.
MaxParts == 3

\* ----------------------------------------------------------------- strings
UpperCase ==
    <<"A","B","C","D","E","F","G","H","I","J","K","L","M","N","O","P","Q","R","S","T","U","V","W","X","Y","Z">>
LowerCase ==
    <<"a","b","c","d","e","f","g","h","i","j","k","l","m","n","o","p","q","r","s","t","u","v","w","x","y","z">>

\* The variant of toLowerChar that forgets the conversion.
toLowerCharIdentity(c) == c

\* String.prototype.toLowerCase on one ASCII character.
toLowerChar(c) ==
    IF \E i \in 1..26 : UpperCase[i] = c
    THEN LowerCase[CHOOSE i \in 1..26 : UpperCase[i] = c]
    ELSE c

toLowerCase(s) == [i \in 1..Len(s) |-> toLowerChar(s[i])]

\* frag occurs in s at offset i (0-based).
matchesAt(s, frag, i) ==
    /\ i + Len(frag) <= Len(s)
    /\ \A j \in 1..Len(frag) : s[i + j] = frag[j]

\* String.prototype.includes
includes(s, frag) == \E i \in 0..Len(s) : matchesAt(s, frag, i)

\* ------------------------------------------------------- domain fragments
F_youtube_com ==
    <<"y","o","u","t","u","b","e",".","c","o","m">>
F_youtu_be ==
    <<"y","o","u","t","u",".","b","e">>
F_instagram_com ==
    <<"i","n","s","t","a","g","r","a","m",".","c","o","m">>
F_tiktok_com ==
    <<"t","i","k","t","o","k",".","c","o","m">>
F_vm_tiktok_com ==
    <<"v","m",".","t","i","k","t","o","k",".","c","o","m">>
F_snapchat_com ==
    <<"s","n","a","p","c","h","a","t",".","c","o","m">>
F_facebook_com ==
    <<"f","a","c","e","b","o","o","k",".","c","o","m">>
F_fb_watch ==
    <<"f","b",".","w","a","t","c","h">>
F_x_com ==
    <<"x",".","c","o","m">>
F_twitter_com ==
    <<"t","w","i","t","t","e","r",".","c","o","m">>
F_reddit_com ==
    <<"r","e","d","d","i","t",".","c","o","m">>
F_twitch_tv ==
    <<"t","w","i","t","c","h",".","t","v">>

\* ------------------------------------------------------ platform detection
\* The variant of detectPlatform that lacks the final `return 'unknown'`.
detectPlatformNoDefault(url) ==
    LET urlLower == toLowerCase(url) IN
    IF includes(urlLower, F_youtube_com) \/ includes(urlLower, F_youtu_be) THEN "youtube"
    ELSE IF includes(urlLower, F_instagram_com) THEN "instagram"
    ELSE IF includes(urlLower, F_tiktok_com) \/ includes(urlLower, F_vm_tiktok_com) THEN "tiktok"
    ELSE IF includes(urlLower, F_snapchat_com) THEN "snapchat"
    ELSE "undefined"

\* detectPlatform of the "ytdlp" service.
detectPlatform(url) ==
    LET urlLower == toLowerCase(url) IN
    IF includes(urlLower, F_youtube_com) \/ includes(urlLower, F_youtu_be) THEN "youtube"
    ELSE IF includes(urlLower, F_instagram_com) THEN "instagram"
    ELSE IF includes(urlLower, F_tiktok_com) \/ includes(urlLower, F_vm_tiktok_com) THEN "tiktok"
    ELSE IF includes(urlLower, F_snapchat_com) THEN "snapchat"
    ELSE "unknown"

\* detectPlatform of the "scraper" service.
detectPlatformScraper(url) ==
    LET urlLower == toLowerCase(url) IN
    IF includes(urlLower, F_youtube_com) \/ includes(urlLower, F_youtu_be) THEN "youtube"
    ELSE IF includes(urlLower, F_instagram_com) THEN "instagram"
    ELSE IF includes(urlLower, F_tiktok_com) \/ includes(urlLower, F_vm_tiktok_com) THEN "tiktok"
    ELSE IF includes(urlLower, F_snapchat_com) THEN "snapchat"
    ELSE IF includes(urlLower, F_facebook_com) \/ includes(urlLower, F_fb_watch) THEN "facebook"
    ELSE IF includes(urlLower, F_x_com) \/ includes(urlLower, F_twitter_com) THEN "twitter"
    ELSE IF includes(urlLower, F_reddit_com) THEN "reddit"
    ELSE IF includes(urlLower, F_twitch_tv) THEN "twitch"
    ELSE "unknown"

\* detectPlatform of the "spawn" and "direct" services (no snapchat entry).
detectPlatformSpawn(url) ==
    LET urlLower == toLowerCase(url) IN
    IF includes(urlLower, F_youtube_com) \/ includes(urlLower, F_youtu_be) THEN "youtube"
    ELSE IF includes(urlLower, F_instagram_com) THEN "instagram"
    ELSE IF includes(urlLower, F_tiktok_com) THEN "tiktok"
    ELSE IF includes(urlLower, F_facebook_com) THEN "facebook"
    ELSE IF includes(urlLower, F_x_com) \/ includes(urlLower, F_twitter_com) THEN "twitter"
    ELSE IF includes(urlLower, F_reddit_com) THEN "reddit"
    ELSE IF includes(urlLower, F_twitch_tv) THEN "twitch"
    ELSE "unknown"

\* ------------------------------------------------------------- sample URLs
P_https ==
    <<"h","t","t","p","s",":","/","/">>
P_www ==
    <<"w","w","w",".">>
P_YouTube_com ==
    <<"Y","o","u","T","u","b","e",".","c","o","m">>
P_youtu_be ==
    <<"y","o","u","t","u",".","b","e">>
P_INSTAGRAM_com ==
    <<"I","N","S","T","A","G","R","A","M",".","c","o","m">>
P_vm_TikTok_com ==
    <<"v","m",".","T","i","k","T","o","k",".","c","o","m">>
P_snapchat_com ==
    <<"s","n","a","p","c","h","a","t",".","c","o","m">>
P_netflix_com ==
    <<"n","e","t","f","l","i","x",".","c","o","m">>
P_x_com ==
    <<"x",".","c","o","m">>
P_watch ==
    <<"/","w","a","t","c","h","?","v","=">>
P_example_org ==
    <<"e","x","a","m","p","l","e",".","o","r","g">>
P_slash ==
    <<"/">>

\* The pieces the classifier's inputs are concatenated from.
UrlParts ==
    { P_https, P_www, P_YouTube_com, P_youtu_be, P_INSTAGRAM_com, P_vm_TikTok_com,
      P_snapchat_com, P_netflix_com, P_x_com, P_watch, P_example_org, P_slash }

\* -------------------------------------------------------- request URLs
U_youtube_watch ==
    <<"h","t","t","p","s",":","/","/","w","w","w",".","y","o","u","t","u","b","e",".","c","o","m","/","w","a","t","c","h","?","v","=","d","Q","w","4","w","9","W","g","X","c","Q">>
U_youtube_short ==
    <<"h","t","t","p","s",":","/","/","Y","o","u","T","u",".","b","e","/","a","b","c">>
U_instagram_reel ==
    <<"h","t","t","p","s",":","/","/","w","w","w",".","i","n","s","t","a","g","r","a","m",".","c","o","m","/","r","e","e","l","/","a","b","c","1","2","3","/">>
U_tiktok_video ==
    <<"h","t","t","p","s",":","/","/","w","w","w",".","t","i","k","t","o","k",".","c","o","m","/","@","u","/","v","i","d","e","o","/","7">>
U_snapchat_add ==
    <<"h","t","t","p","s",":","/","/","w","w","w",".","s","n","a","p","c","h","a","t",".","c","o","m","/","a","d","d","/","b","o","b">>
U_netflix ==
    <<"h","t","t","p","s",":","/","/","n","e","t","f","l","i","x",".","c","o","m","/","t","i","t","l","e","/","1">>
U_example ==
    <<"h","t","t","p","s",":","/","/","e","x","a","m","p","l","e",".","o","r","g","/","v">>
U_not_a_url ==
    <<"n","o","t"," ","a"," ","u","r","l">>

\* ----------------------------------------------------------- URL syntax
Digits ==
    <<"0","1","2","3","4","5","6","7","8","9">>

isAlpha(c) == \E i \in 1..26 : c = UpperCase[i] \/ c = LowerCase[i]
isDigit(c) == \E i \in 1..10 : c = Digits[i]
isWord(c) == isAlpha(c) \/ isDigit(c) \/ c = "_"

S_http ==
    <<"h","t","t","p">>
S_https ==
    <<"h","t","t","p","s">>

\* isValidUrl: `new URL(url)` does not throw.  A URL parses when it starts
\* with a scheme (a letter, then letters, digits, +, -, .) and a colon; for
\* http and https the host after the slashes must be non-empty and hold no
\* space.
isValidUrl(url) ==
    \E k \in 2..Len(url) :
        /\ url[k] = ":"
        /\ isAlpha(url[1])
        /\ \A i \in 1..(k - 1) : isAlpha(url[i]) \/ isDigit(url[i]) \/ url[i] \in {"+", "-", "."}
        /\ LET scheme == toLowerCase(SubSeq(url, 1, k - 1))
               rest == SubSeq(url, k + 1, Len(url))
               slashes == CHOOSE n \in 0..Len(rest) :
                              /\ \A i \in 1..n : rest[i] \in {"/", "\\"}
                              /\ n < Len(rest) => rest[n + 1] \notin {"/", "\\"}
               ends == {i \in (slashes + 1)..Len(rest) : rest[i] \in {"/", "\\", "?", "#"}}
               hostEnd == IF ends = {} THEN Len(rest)
                          ELSE (CHOOSE i \in ends : \A j \in ends : i <= j) - 1
               host == SubSeq(rest, slashes + 1, hostEnd)
           IN  scheme \in {S_http, S_https} =>
                   /\ Len(host) > 0
                   /\ \A i \in 1..Len(host) : host[i] # " "

\* ------------------------------------------------ YouTube video id regex
\* /^.*(youtu.be\/|v\/|u\/\w\/|embed\/|watch\?v=|&v=)([^#&?]*).*/ : the
\* alternatives in order; "ANY" is the regex dot, "WORD" is \w.
VideoIdMarkers ==
    << <<"y","o","u","t","u","ANY","b","e","/">>,
       <<"v","/">>,
       <<"u","/","WORD","/">>,
       <<"e","m","b","e","d","/">>,
       <<"w","a","t","c","h","?","v","=">>,
       <<"&","v","=">> >>

patternAt(s, pat, i) ==
    /\ i + Len(pat) <= Len(s)
    /\ \A j \in 1..Len(pat) :
           \/ pat[j] = "ANY"
           \/ pat[j] = "WORD" /\ isWord(s[i + j])
           \/ pat[j] = s[i + j]

null == <<"null">>

\* extractYoutubeVideoId: the greedy leading .* makes the last marker
\* occurrence the match; group 2 is the longest run without # & ?, and the
\* id is returned only when that run is 11 characters long.
extractYoutubeVideoId(url) ==
    LET starts == {i \in 0..Len(url) : \E m \in 1..Len(VideoIdMarkers) : patternAt(url, VideoIdMarkers[m], i)}
    IN  IF starts = {} THEN null
        ELSE LET p == CHOOSE i \in starts : \A j \in starts : j <= i
                 m == CHOOSE a \in 1..Len(VideoIdMarkers) :
                          /\ patternAt(url, VideoIdMarkers[a], p)
                          /\ \A b \in 1..(a - 1) : ~patternAt(url, VideoIdMarkers[b], p)
                 from == p + Len(VideoIdMarkers[m])
                 stops == {i \in (from + 1)..Len(url) : url[i] \in {"#", "&", "?"}}
                 to == IF stops = {} THEN Len(url)
                       ELSE (CHOOSE i \in stops : \A j \in stops : i <= j) - 1
             IN  IF to - from = 11 THEN SubSeq(url, from + 1, to) ELSE null

\* ------------------------------------------------------------------ state
VARIABLES
    arg,             \* helper check: the argument handed to a helper function
    out,             \* helper check: what the helper returned
    input,           \* classifier check: the string handed to detectPlatform
    tags,            \* classifier check: what each service's detectPlatform returned
    service,         \* which service module the controller has loaded
    installed,       \* the external tools / optional packages present on the host
    ytDlpAvailable,  \* part_003:201 module-level flag
    probe,           \* the startup probe of part_003:202-210: "inflight" or "done"
    clock,           \* Date.now()
    files,           \* the download directory: file name -> file
    req              \* the requests in flight: request id -> request state

vars == <<arg, out, input, tags, service, installed, ytDlpAvailable, probe, clock, files, req>>

Services == {"ytdlp", "scraper", "direct", "spawn"}

PlatformTags ==
    {"youtube", "instagram", "tiktok", "snapchat", "facebook", "twitter", "reddit", "twitch", "unknown"}

\* ------------------------------------------------ the classifier's inputs
RECURSIVE UrlsOf(_)
UrlsOf(n) ==
    IF n = 0 THEN {<< >>}
    ELSE LET shorter == UrlsOf(n - 1)
         IN  shorter \cup {u \o p : u \in shorter, p \in UrlParts}

SampleUrls == UrlsOf(MaxParts)

\* ------------------------------------------------------------ JS values
undefined == <<"undefined">>

Num(n) == [kind |-> "number", n |-> n]
JsNull == [kind |-> "null", n |-> 0]
JsUndefined == [kind |-> "undefined", n |-> 0]
JsNaN == [kind |-> "NaN", n |-> 0]

\* !value  for a number, NaN, null or undefined
falsy(v) == v.kind # "number" \/ v.n = 0

\* String(n) for a non-negative integer
RECURSIVE String(_)
String(n) ==
    IF n < 10 THEN <<Digits[n + 1]>>
    ELSE String(n \div 10) \o <<Digits[(n % 10) + 1]>>

\* The variant of padStart2 that does not pad.
padStartNone(s) == s

\* s.padStart(2, '0')
padStart2(s) == IF Len(s) < 2 THEN <<"0">> \o s ELSE s

\* formatDuration(seconds), part_003:249-260, on null, undefined, NaN and the
\* non-negative integers.
formatDuration(seconds) ==
    IF falsy(seconds) THEN null
    ELSE LET hours == seconds.n \div 3600
             minutes == (seconds.n % 3600) \div 60
             secs == seconds.n % 60
         IN  IF hours > 0
             THEN String(hours) \o <<":">> \o padStart2(String(minutes)) \o <<":">>
                    \o padStart2(String(secs))
             ELSE String(minutes) \o <<":">> \o padStart2(String(secs))

\* The helper checks' argument and result before a helper has run.
\* Values on the path of the `quality` parameter: nothing (undefined), a
\* string, a number, or an object with (or without) a property "quality".
JsNothing == [kind |-> "undefined", text |-> << >>, quality |-> undefined]
JsText(t) == [kind |-> "string", text |-> t, quality |-> undefined]
JsNumber(t) == [kind |-> "number", text |-> t, quality |-> undefined]
JsObject(q) == [kind |-> "object", text |-> << >>, quality |-> q]

NoArg ==
    [fn |-> "none", seconds |-> JsNull, title |-> << >>, site |-> "none",
     platform |-> "none", quality |-> JsNothing]
NoOut ==
    [done |-> FALSE, text |-> << >>, duration |-> JsNull, durationFormatted |-> null,
     twice |-> FALSE, again |-> << >>, quality |-> JsNothing]

\* ------------------------------------------------- filename sanitization
\* substring(0, 100) of part_003:246.
SanitizeLimit == 100
\* slice(0, 80) of part_005:156 and of the inline sanitizers.
SliceLimit == 80
\* %(title).50s of the yt-dlp output template, part_003:310.
TemplateTitleLimit == 50

isNameChar(c) == isAlpha(c) \/ isDigit(c) \/ c \in {"_", "-"}

\* replace(/[^a-zA-Z0-9_\-]/g, '_')  (whitespace ends as "_" in both forms)
replaceDisallowed(s) == [i \in 1..Len(s) |-> IF isNameChar(s[i]) THEN s[i] ELSE "_"]

\* replace(/_+/g, '_'): of every run of "_" the first one stays.
collapseUnderscores(s) ==
    LET keep == {i \in 1..Len(s) : ~(s[i] = "_" /\ i > 1 /\ s[i - 1] = "_")}
        rank == [i \in keep |-> Cardinality({j \in keep : j <= i})]
    IN  [k \in 1..Cardinality(keep) |-> s[CHOOSE i \in keep : rank[i] = k]]

\* replace(/^_+|_+$/g, ''): what lies between the first and the last
\* character that is not "_".
trimUnderscores(s) ==
    LET other == {i \in 1..Len(s) : s[i] # "_"} IN
    IF other = {} THEN << >>
    ELSE SubSeq(s, CHOOSE i \in other : \A j \in other : i <= j,
                   CHOOSE i \in other : \A j \in other : j <= i)

truncate(s, n) == IF Len(s) <= n THEN s ELSE SubSeq(s, 1, n)

\* sanitizeFilename of the "ytdlp" service.
sanitizeFilename(filename) ==
    truncate(trimUnderscores(collapseUnderscores(replaceDisallowed(filename))), SanitizeLimit)

\* sanitizeFilename(title).slice(0, 80) of the "scraper" service.
sanitizeFilenameScraper(filename) ==
    truncate(trimUnderscores(collapseUnderscores(replaceDisallowed(filename))), SliceLimit)

\* The inline sanitizer of the "direct" and "spawn" services (no trim).
sanitizeInline(title) ==
    truncate(collapseUnderscores(replaceDisallowed(title)), SliceLimit)

\* ------------------------------------------------------ requests' inputs
UrlIds == {"yt_watch", "yt_short", "ig_reel", "tt_video", "sc_add", "netflix", "example", "not_a_url"}

UrlText(u) ==
    CASE u = "yt_watch" -> U_youtube_watch
      [] u = "yt_short" -> U_youtube_short
      [] u = "ig_reel" -> U_instagram_reel
      [] u = "tt_video" -> U_tiktok_video
      [] u = "sc_add" -> U_snapchat_add
      [] u = "netflix" -> U_netflix
      [] u = "example" -> U_example
      [] OTHER -> U_not_a_url

\* What the platform reports as the title of the media behind each URL.
T_cat2 ==
    <<"C","a","t"," ","2">>
T_cat ==
    <<"C","a","t">>
T_reel ==
    <<"r","e","e","l","!">>
T_tt ==
    <<"t","t">>
T_snap ==
    <<"s","n","a","p">>
T_other ==
    <<"m">>

MediaTitle(u) ==
    CASE u = "yt_watch" -> T_cat2
      [] u = "yt_short" -> T_cat
      [] u = "ig_reel" -> T_reel
      [] u = "tt_video" -> T_tt
      [] u = "sc_add" -> T_snap
      [] OTHER -> T_other

\* The placeholder records' titles (part_003:485, 531, 575; part_005:471).
T_placeholder ==
    <<"C","o","n","t","e","n","t">>

\* ------------------------------------------------------- records in use
NoInfo == [platform |-> "none", title |-> << >>, source |-> "none", media |-> FALSE]
NoErr == [kind |-> "none", from |-> "none"]
NoName == [pre |-> "none", stem |-> << >>, suffix |-> -1, ext |-> "none"]
NoResult == [filename |-> NoName, filesize |-> -1, platform |-> "none", title |-> << >>]

Info(platform, title, source, media) ==
    [platform |-> platform, title |-> title, source |-> source, media |-> media]
Err(kind, from) == [kind |-> kind, from |-> from]

\* What a handler does next: await an adapter call, return a record, throw.
Await(a) == [k |-> "await", adapter |-> a, info |-> NoInfo, err |-> NoErr]
Got(i) == [k |-> "ok", adapter |-> "none", info |-> i, err |-> NoErr]
Threw(e) == [k |-> "fail", adapter |-> "none", info |-> NoInfo, err |-> e]

\* The service's own detectPlatform.
detect(svc, url) ==
    CASE svc = "ytdlp" -> detectPlatform(url)
      [] svc = "scraper" -> detectPlatformScraper(url)
      [] OTHER -> detectPlatformSpawn(url)

\* ------------------------------------------- id regexes of the scrapers
M_reel ==
    <<"/","r","e","e","l","/">>
M_p ==
    <<"/","p","/">>
M_video ==
    <<"/","v","i","d","e","o","/">>
M_v ==
    <<"v","/">>
M_dot ==
    <<".">>
M_add ==
    <<"a","d","d","=">>
M_username ==
    <<"u","s","e","r","n","a","m","e","=">>

\* marker followed by at least one character outside `stop`
followedByNot(url, marker, stop) ==
    \E i \in 0..Len(url) :
        /\ matchesAt(url, marker, i)
        /\ i + Len(marker) < Len(url)
        /\ url[i + Len(marker) + 1] \notin stop

followedByDigit(url, marker) ==
    \E i \in 0..Len(url) :
        /\ matchesAt(url, marker, i)
        /\ i + Len(marker) < Len(url)
        /\ isDigit(url[i + Len(marker) + 1])

\* part_005:217-218  /\/reel\/([^/?]+)/ , /\/p\/([^/?]+)/
hasInstagramPostId(url) ==
    followedByNot(url, M_reel, {"/", "?"}) \/ followedByNot(url, M_p, {"/", "?"})

\* part_005:339  /\/video\/(\d+)/ , /v\/(\d+)/ , /\.(\d+)/
hasTiktokVideoId(url) ==
    followedByDigit(url, M_video) \/ followedByDigit(url, M_v) \/ followedByDigit(url, M_dot)

\* part_005:462  /(?:add|username)=([^&]+)/ , /\/([^/?]+)$/
hasSnapchatUsername(url) ==
    \/ followedByNot(url, M_add, {"&"})
    \/ followedByNot(url, M_username, {"&"})
    \/ \E i \in 1..(Len(url) - 1) :
           url[i] = "/" /\ \A j \in (i + 1)..Len(url) : url[j] \notin {"/", "?"}

\* ------------------------------------------ the request URLs, evaluated
\* What the pure functions of the services return on each request URL.
Classified == [svc \in Services |-> [u \in UrlIds |-> detect(svc, UrlText(u))]]
ValidUrls == {u \in UrlIds : isValidUrl(UrlText(u))}
WithVideoId == {u \in UrlIds : extractYoutubeVideoId(UrlText(u)) # null}
WithInstagramPostId == {u \in UrlIds : hasInstagramPostId(UrlText(u))}
WithTiktokVideoId == {u \in UrlIds : hasTiktokVideoId(UrlText(u))}
WithSnapchatUsername == {u \in UrlIds : hasSnapchatUsername(UrlText(u))}

\* --------------------------------------------- metadata: "ytdlp" service
\* getInfoWithYtDlp's record: platform is extractor_key.toLowerCase() when
\* yt-dlp reports one (`key`), else detectPlatform(url).
ytDlpRecord(u, key) ==
    Info(IF key = "" THEN Classified["ytdlp"][u] ELSE key, MediaTitle(u), "ytdlp", TRUE)

\* The "Fallback basic info" records of getInstagramInfo, getTiktokInfo and
\* getSnapchatInfo.
placeholderRecord(platform) == Info(platform, T_placeholder, "placeholder", FALSE)

\* getYoutubeInfo up to its first await.
getYoutubeInfoBegin(u, avail) ==
    IF u \notin WithVideoId
    THEN IF avail THEN Await("ytdlp") ELSE Threw(Err("InvalidVideoId", "none"))
    ELSE Await("playdl")

\* getYoutubeInfo from the completion of the awaited adapter call.
getYoutubeInfoAfter(u, adapter, ok, key, avail) ==
    IF adapter = "playdl"
    THEN IF ok THEN Got(Info("youtube", MediaTitle(u), "playdl", TRUE))
         ELSE IF avail THEN Await("ytdlp") ELSE Threw(Err("ExtractionFailed", "playdl"))
    ELSE IF ok THEN Got(ytDlpRecord(u, key)) ELSE Threw(Err("ExtractionFailed", "ytdlp"))

\* getInstagramInfo / getTiktokInfo: yt-dlp when available, else placeholder.
getYtDlpOnlyInfoBegin(platform, avail) ==
    IF avail THEN Await("ytdlp") ELSE Got(placeholderRecord(platform))

getYtDlpOnlyInfoAfter(u, ok, key) ==
    IF ok THEN Got(ytDlpRecord(u, key)) ELSE Threw(Err("ExtractionFailed", "ytdlp"))

\* getSnapchatInfo: a yt-dlp failure is logged and the placeholder returned.
getSnapchatInfoAfter(u, ok, key) ==
    IF ok THEN Got(ytDlpRecord(u, key)) ELSE Got(placeholderRecord("snapchat"))

\* ------------------------------------------- metadata: "scraper" service
getYoutubeInfoScraperBegin(u) ==
    IF u \notin WithVideoId
    THEN Threw(Err("InvalidVideoId", "none"))
    ELSE Await("ytdlcore")

getYoutubeInfoScraperAfter(u, adapter, ok) ==
    IF adapter = "ytdlcore"
    THEN IF ok THEN Got(Info("youtube", MediaTitle(u), "ytdlcore", TRUE)) ELSE Await("oembed")
    ELSE IF ok THEN Got(Info("youtube", MediaTitle(u), "oembed", TRUE))
         ELSE Threw(Err("ExtractionFailed", "oembed"))

getInstagramInfoScraperBegin(u, inst) ==
    IF "instatouch" \in inst /\ u \in WithInstagramPostId
    THEN Await("instatouch")
    ELSE Await("instazoo")

getInstagramInfoScraperAfter(u, adapter, ok) ==
    IF adapter = "instatouch"
    THEN IF ok THEN Got(Info("instagram", MediaTitle(u), "instatouch", TRUE)) ELSE Await("instazoo")
    ELSE IF ok THEN Got(Info("instagram", MediaTitle(u), "instazoo", TRUE))
         ELSE Threw(Err("ExtractionFailed", "instazoo"))

getTiktokInfoScraperBegin(u, inst) ==
    IF u \notin WithTiktokVideoId THEN Threw(Err("InvalidVideoId", "none"))
    ELSE IF "tiktok-downloader" \in inst THEN Await("tiktokdl")
    ELSE Await("tiktokoembed")

\* Method 2 (oEmbed) is followed by Method 3 (api.tiktok.com) whether or
\* not oEmbed answered; a failure of Method 3 is caught and its data null.
getTiktokInfoScraperAfter(u, adapter, ok) ==
    CASE adapter = "tiktokdl" ->
            IF ok THEN Got(Info("tiktok", MediaTitle(u), "tiktokdl", TRUE)) ELSE Await("tiktokoembed")
      [] adapter = "tiktokoembed" ->
            IF ok THEN Await("tiktokapi") ELSE Threw(Err("ExtractionFailed", "tiktokoembed"))
      [] OTHER ->
            IF ok THEN Got(Info("tiktok", MediaTitle(u), "tiktokapi", TRUE))
            ELSE Got(Info("tiktok", MediaTitle(u), "tiktokoembed", FALSE))

getSnapchatInfoScraper(u) ==
    IF u \in WithSnapchatUsername
    THEN Got(placeholderRecord("snapchat"))
    ELSE Threw(Err("InvalidInput", "none"))

\* -------------------------------------------- metadata: "direct" service
getInfoDirectBegin(u, inst) ==
    LET platform == Classified["direct"][u] IN
    CASE platform = "youtube" ->
            IF u \notin WithVideoId
            THEN Threw(Err("InvalidVideoId", "none"))
            ELSE Await("oembed")
      [] platform = "instagram" ->
            IF "instagram-url-direct" \in inst THEN Await("igdl")
            ELSE Threw(Err("BackendUnavailable", "igdl"))
      [] platform = "tiktok" ->
            IF "tiktok-scraper" \in inst THEN Await("tiktokscraper")
            ELSE Threw(Err("BackendUnavailable", "tiktokscraper"))
      [] OTHER -> Threw(Err("UnsupportedPlatform", "none"))

getInfoDirectAfter(u, adapter, ok) ==
    IF ok THEN Got(Info(Classified["direct"][u], MediaTitle(u), adapter, TRUE))
    ELSE Threw(Err("ExtractionFailed", adapter))

\* --------------------------------------------- metadata: "spawn" service
\* getInfo runs yt-dlp first and classifies the URL afterwards.
getInfoSpawnAfter(u, ok) ==
    IF ok THEN Got(Info(Classified["direct"][u], MediaTitle(u), "ytdlp", TRUE))
    ELSE Threw(Err("ExtractionFailed", "ytdlp"))

\* ----------------------------------------------------- handler dispatch
Supported(svc) ==
    CASE svc = "ytdlp" -> {"youtube", "instagram", "tiktok", "snapchat"}
      [] svc = "scraper" -> {"youtube", "instagram", "tiktok", "snapchat"}
      [] svc = "direct" -> {"youtube", "instagram", "tiktok"}
      [] OTHER -> PlatformTags

\* The platform's metadata handler up to its first await.
platformInfoBegin(svc, u, avail, inst) ==
    LET platform == Classified[svc][u] IN
    CASE svc = "ytdlp" ->
            IF platform = "youtube" THEN getYoutubeInfoBegin(u, avail)
            ELSE getYtDlpOnlyInfoBegin(platform, avail)
      [] svc = "scraper" ->
            CASE platform = "youtube" -> getYoutubeInfoScraperBegin(u)
              [] platform = "instagram" -> getInstagramInfoScraperBegin(u, inst)
              [] platform = "tiktok" -> getTiktokInfoScraperBegin(u, inst)
              [] OTHER -> getSnapchatInfoScraper(u)
      [] svc = "direct" -> getInfoDirectBegin(u, inst)
      [] OTHER -> Await("ytdlp")

\* The platform's metadata handler from the completion of an adapter call.
platformInfoAfter(svc, u, adapter, ok, key, avail) ==
    LET platform == Classified[svc][u] IN
    CASE svc = "ytdlp" ->
            CASE platform = "youtube" -> getYoutubeInfoAfter(u, adapter, ok, key, avail)
              [] platform = "snapchat" -> getSnapchatInfoAfter(u, ok, key)
              [] OTHER -> getYtDlpOnlyInfoAfter(u, ok, key)
      [] svc = "scraper" ->
            CASE platform = "youtube" -> getYoutubeInfoScraperAfter(u, adapter, ok)
              [] platform = "instagram" -> getInstagramInfoScraperAfter(u, adapter, ok)
              [] OTHER -> getTiktokInfoScraperAfter(u, adapter, ok)
      [] svc = "direct" -> getInfoDirectAfter(u, adapter, ok)
      [] OTHER -> getInfoSpawnAfter(u, ok)

\* getInfo (the exported function) up to its first await.
getInfoBegin(svc, u, avail, inst) ==
    IF svc \in {"ytdlp", "scraper"}
    THEN IF u \notin ValidUrls THEN Threw(Err("InvalidInput", "none"))
         ELSE IF Classified[svc][u] \notin Supported(svc)
              THEN Threw(Err("UnsupportedPlatform", "none"))
              ELSE platformInfoBegin(svc, u, avail, inst)
    ELSE platformInfoBegin(svc, u, avail, inst)

\* ----------------------------------------------------- request records
Reqs == {"r1", "r2"}

IdleReq ==
    [op |-> "none", url |-> "none", pc |-> "idle", adapter |-> "none", calls |-> << >>,
     info |-> NoInfo, fname |-> NoName, ws |-> "none", unlink |-> FALSE, written |-> 0,
     outcome |-> "pending", err |-> NoErr, result |-> NoResult]

Name(pre, stem, suffix, ext) == [pre |-> pre, stem |-> stem, suffix |-> suffix, ext |-> ext]

\* The name yt-dlp writes under while the download is in progress.
PartOf(name) == [name EXCEPT !.ext = "part"]

\* The request log: one entry per call of an adapter or external tool.
invoke(q, phase, a) ==
    [q EXCEPT !.adapter = a,
              !.calls = Append(@, [phase |-> phase, adapter |-> a, ok |-> "pending"])]

\* The pending call of the request settles.
settle(q, ok) ==
    [q EXCEPT !.calls[Len(q.calls)].ok = IF ok THEN "ok" ELSE "failed"]

reject(q, e) ==
    [q EXCEPT !.pc = "done", !.adapter = "none", !.outcome = "error", !.err = e]

resolveInfo(q, i) ==
    [q EXCEPT !.pc = "done", !.adapter = "none", !.outcome = "ok", !.info = i]

resolveDownload(q, result) ==
    [q EXCEPT !.pc = "done", !.adapter = "none", !.outcome = "ok", !.result = result]

\* downloadWithYtDlp up to `await execAsync(command, ...)`.
downloadWithYtDlpBegin(q, platform, now) ==
    [invoke(q, "download", "ytdlp") EXCEPT
        !.pc = "exec",
        !.fname = Name(platform, truncate(MediaTitle(q.url), TemplateTitleLimit), now, "mp4"),
        !.written = 0]

\* The download handler once the metadata is there, up to its next await.
downloadWithInfo(svc, q0, i, now) ==
    LET q == [q0 EXCEPT !.info = i]
        platform == Classified[svc][q.url]
    IN
    CASE svc = "ytdlp" ->
            [invoke(q, "download", "playdl") EXCEPT
                !.pc = "connect", !.fname = Name("", sanitizeFilename(i.title), now, "mp4")]
      [] svc = "scraper" /\ platform = "youtube" ->
            [invoke(q, "download", "ytdlcore") EXCEPT
                !.pc = "piping", !.ws = "opening",
                !.fname = Name("", sanitizeFilenameScraper(i.title), now, "mp4")]
      [] svc = "scraper" /\ platform # "youtube" ->
            IF ~i.media THEN reject(q, Err("NoContent", "none"))
            ELSE [invoke(q, "download", "http") EXCEPT
                    !.pc = "connect",
                    !.fname = Name("", sanitizeFilenameScraper(i.title), now, "mp4")]
      [] svc = "direct" /\ platform = "youtube" ->
            [invoke(q, "download", "ytdlcore") EXCEPT
                !.pc = "piping", !.ws = "opening",
                !.fname = Name("", sanitizeInline(i.title), now, "mp4")]
      [] svc = "direct" /\ platform # "youtube" ->
            [invoke(q, "download", "http") EXCEPT
                !.pc = "connect", !.fname = Name("", sanitizeInline(i.title), now, "mp4")]
      [] OTHER ->
            [invoke(q, "download", "ytdlp") EXCEPT
                !.pc = "exec", !.written = 0,
                !.fname = Name("", sanitizeInline(i.title), 0, "mp4")]

\* The download handler when the metadata handler threw.
downloadInfoFailed(svc, q, e, avail, now) ==
    IF svc = "ytdlp" /\ avail
    THEN downloadWithYtDlpBegin(q, "youtube", now)
    ELSE reject(q, e)

\* What a handler does with the metadata chain's next step.
continue(svc, q, res, avail, now) ==
    CASE res.k = "await" -> [invoke(q, "info", res.adapter) EXCEPT !.pc = "info"]
      [] res.k = "ok" ->
            IF q.op = "info" THEN resolveInfo(q, res.info)
            ELSE downloadWithInfo(svc, q, res.info, now)
      [] OTHER ->
            IF q.op = "info" THEN reject(q, res.err)
            ELSE downloadInfoFailed(svc, q, res.err, avail, now)

\* downloadMedia (the exported function) up to its first await.
downloadMediaBegin(svc, q, avail, inst, now) ==
    LET u == q.url
        platform == Classified[svc][u]
    IN
    CASE svc = "ytdlp" ->
            IF u \notin ValidUrls THEN reject(q, Err("InvalidInput", "none"))
            ELSE CASE platform = "youtube" ->
                        continue(svc, q, getYoutubeInfoBegin(u, avail), avail, now)
                   [] platform \in {"instagram", "tiktok"} ->
                        IF avail THEN downloadWithYtDlpBegin(q, platform, now)
                        ELSE reject(q, Err("BackendUnavailable", "ytdlp"))
                   [] platform = "snapchat" ->
                        IF avail THEN downloadWithYtDlpBegin(q, platform, now)
                        ELSE reject(q, Err("BackendUnavailable", "none"))
                   [] OTHER -> reject(q, Err("UnsupportedPlatform", "none"))
      [] svc = "scraper" ->
            IF u \notin ValidUrls THEN reject(q, Err("InvalidInput", "none"))
            ELSE CASE platform \in {"youtube", "instagram", "tiktok"} ->
                        continue(svc, q, platformInfoBegin(svc, u, avail, inst), avail, now)
                   [] platform = "snapchat" -> reject(q, Err("NotDownloadable", "none"))
                   [] OTHER -> reject(q, Err("UnsupportedPlatform", "none"))
      [] OTHER -> continue(svc, q, platformInfoBegin(svc, u, avail, inst), avail, now)

\* -------------------------------------------------------------- bounds
\* Date.now() takes the values 0..MaxClock.
MaxClock == 1
\* Chunks a source stream or a yt-dlp process writes before it ends.
MaxChunks == 1

\* ------------------------------------------------ the download directory
NewFile(r, now) == [bytes |-> 0, by |-> {r}, mtime |-> now, complete |-> FALSE]

put(f, name, rec) == [n \in (DOMAIN f) \cup {name} |-> IF n = name THEN rec ELSE f[n]]
remove(f, name) == [n \in (DOMAIN f) \ {name} |-> f[n]]

\* fs.createWriteStream's open with flags 'w': create, or truncate.
opened(f, name, r, now) ==
    IF name \in DOMAIN f
    THEN put(f, name, [bytes |-> 0, by |-> f[name].by \cup {r}, mtime |-> now, complete |-> FALSE])
    ELSE put(f, name, NewFile(r, now))

\* One chunk written through an open descriptor; nothing shows in the
\* directory when the name has been unlinked meanwhile.
appended(f, name, r, now) ==
    IF name \in DOMAIN f
    THEN put(f, name, [bytes |-> f[name].bytes + 1, by |-> f[name].by \cup {r},
                       mtime |-> now, complete |-> FALSE])
    ELSE f

\* yt-dlp writes into <name>.part, creating it when absent.
partWritten(f, name, r, now) ==
    IF PartOf(name) \in DOMAIN f
    THEN appended(f, PartOf(name), r, now)
    ELSE put(f, PartOf(name), [NewFile(r, now) EXCEPT !.bytes = 1])

\* yt-dlp's final rename of <name>.part to <name>.
partRenamed(f, name) ==
    IF PartOf(name) \in DOMAIN f
    THEN put(remove(f, PartOf(name)), name, [f[PartOf(name)] EXCEPT !.complete = TRUE])
    ELSE f

\* ------------------------------------------------------------ processes
Alive == \A r \in Reqs : req[r].outcome # "crashed"

\* An exception no handler catches ends the process and every request in it.
crashAll(rq, r) ==
    [x \in Reqs |->
        IF x = r \/ rq[x].pc \notin {"idle", "done"}
        THEN [rq[x] EXCEPT !.pc = "done", !.adapter = "none", !.outcome = "crashed"]
        ELSE rq[x]]

platformOf(r) == Classified[service][req[r].url]

\* The variant of the probe that is run again on demand: `yt-dlp --version`
\* is executed anew and its outcome of the moment written to the flag.
ProbeOnDemand ==
    /\ Alive
    /\ probe' = "done"
    /\ \E ok \in BOOLEAN : ytDlpAvailable' = (ok /\ "yt-dlp" \in installed)
    /\ UNCHANGED <<arg, out, input, tags, service, installed, clock, files, req>>

\* part_003:202-210: the startup probe completes and writes the flag.
ProbeDone ==
    /\ Alive
    /\ probe = "inflight"
    /\ probe' = "done"
    /\ ytDlpAvailable' = ("yt-dlp" \in installed)
    /\ UNCHANGED <<arg, out, input, tags, service, installed, clock, files, req>>

\* Time passes: Date.now() moves on by a millisecond.
Tick ==
    /\ Alive
    /\ clock < MaxClock
    /\ clock' = clock + 1
    /\ UNCHANGED <<arg, out, input, tags, service, installed, ytDlpAvailable, probe, files, req>>

\* The controller calls getInfo(url) or downloadMedia(url, quality).
Start(r) ==
    /\ Alive
    /\ req[r].pc = "idle"
    /\ r = "r2" => req["r1"].pc # "idle"
    /\ \E op \in {"info", "download"}, u \in UrlIds :
          LET q == [IdleReq EXCEPT !.op = op, !.url = u] IN
          req' = [req EXCEPT ![r] =
                    IF op = "info"
                    THEN continue(service, q, getInfoBegin(service, u, ytDlpAvailable, installed),
                                  ytDlpAvailable, clock)
                    ELSE downloadMediaBegin(service, q, ytDlpAvailable, installed, clock)]
    /\ UNCHANGED <<arg, out, input, tags, service, installed, ytDlpAvailable, probe, clock, files>>

\* The extractor keys yt-dlp may report for a URL ("" when it reports none).
ExtractorKeys == {"", "generic"}

\* The variant of the metadata call in which the tool, run for getInfo,
\* leaves a file of its own in the download directory.
AdapterReturnsLeavingFile(r) ==
    /\ Alive
    /\ req[r].pc = "info"
    /\ \E ok \in BOOLEAN, key \in ExtractorKeys :
          /\ key # "" => (ok /\ service = "ytdlp" /\ req[r].adapter = "ytdlp")
          /\ req' = [req EXCEPT ![r] =
                        continue(service, settle(req[r], ok),
                                 platformInfoAfter(service, req[r].url, req[r].adapter, ok, key,
                                                   ytDlpAvailable),
                                 ytDlpAvailable, clock)]
    /\ files' = IF req[r].op = "info"
                THEN put(files, Name("info", << >>, clock, "json"), NewFile(r, clock))
                ELSE files
    /\ UNCHANGED <<arg, out, input, tags, service, installed, ytDlpAvailable, probe, clock>>

\* An awaited metadata call (play.video_info, yt-dlp --dump-json, ytdl.getInfo,
\* axios.get, a scraper) settles.
AdapterReturns(r) ==
    /\ Alive
    /\ req[r].pc = "info"
    /\ \E ok \in BOOLEAN, key \in ExtractorKeys :
          /\ key # "" => (ok /\ service = "ytdlp" /\ req[r].adapter = "ytdlp")
          /\ req' = [req EXCEPT ![r] =
                        continue(service, settle(req[r], ok),
                                 platformInfoAfter(service, req[r].url, req[r].adapter, ok, key,
                                                   ytDlpAvailable),
                                 ytDlpAvailable, clock)]
    /\ UNCHANGED <<arg, out, input, tags, service, installed, ytDlpAvailable, probe, clock, files>>

\* play.stream(url) or axios.get(..., responseType 'stream') settles; on
\* success fs.createWriteStream(filePath) is called and the pipe set up.
ConnectReturns(r) ==
    /\ Alive
    /\ req[r].pc = "connect"
    /\ \E ok \in BOOLEAN :
          req' = [req EXCEPT ![r] =
                    IF ok THEN [settle(req[r], ok) EXCEPT !.pc = "piping", !.ws = "opening"]
                    ELSE IF service = "ytdlp" /\ ytDlpAvailable
                         THEN downloadWithYtDlpBegin(settle(req[r], ok), "youtube", clock)
                         ELSE reject(settle(req[r], ok), Err("ExtractionFailed", req[r].adapter))]
    /\ UNCHANGED <<arg, out, input, tags, service, installed, ytDlpAvailable, probe, clock, files>>

\* The awaited calls that carry a time limit: axios.get(..., {timeout})
\* of part_005:126, 248, 371, 376 (metadata), 297, 419 (the download's
\* response) and 641 (oEmbed of the "direct" service).
timeLimited(svc, adapter) ==
    \/ svc = "scraper" /\ adapter \in {"oembed", "instazoo", "tiktokoembed", "tiktokapi", "http"}
    \/ svc = "direct" /\ adapter = "oembed"

\* The time limit of an awaited axios call expires: the call rejects.
AxiosTimeout(r) ==
    /\ Alive
    /\ req[r].pc \in {"info", "connect"}
    /\ timeLimited(service, req[r].adapter)
    /\ req' = [req EXCEPT ![r] =
                 IF req[r].pc = "info"
                 THEN continue(service, settle(req[r], FALSE),
                               platformInfoAfter(service, req[r].url, req[r].adapter, FALSE, "",
                                                 ytDlpAvailable),
                               ytDlpAvailable, clock)
                 ELSE reject(settle(req[r], FALSE), Err("ExtractionFailed", req[r].adapter))]
    /\ UNCHANGED <<arg, out, input, tags, service, installed, ytDlpAvailable, probe, clock, files>>

\* What the handler registered for the source stream's 'error' does: unlink
\* the file and reject, or nothing at all (no handler: the event is thrown).
onSourceError(svc, platform) ==
    IF svc = "ytdlp" \/ platform = "youtube" THEN "unlink" ELSE "crash"

\* What the handler registered for the write stream's 'error' does.
onWriteError(svc, platform) ==
    CASE svc = "ytdlp" -> "reject"
      [] svc = "scraper" -> "unlink"
      [] OTHER -> IF platform = "youtube" THEN "unlink" ELSE "reject"

\* The asynchronous open of the write stream completes: the file appears.
FileOpened(r) ==
    /\ Alive
    /\ req[r].ws = "opening"
    /\ files' = opened(files, req[r].fname, r, clock)
    /\ req' = [req EXCEPT ![r].ws = "open"]
    /\ UNCHANGED <<arg, out, input, tags, service, installed, ytDlpAvailable, probe, clock>>

\* The source delivers a chunk and the pipe writes it.
SourceData(r) ==
    /\ Alive
    /\ req[r].pc = "piping"
    /\ req[r].ws = "open"
    /\ req[r].written < MaxChunks
    /\ files' = appended(files, req[r].fname, r, clock)
    /\ req' = [req EXCEPT ![r].written = @ + 1]
    /\ UNCHANGED <<arg, out, input, tags, service, installed, ytDlpAvailable, probe, clock>>

\* The source ends and the write stream emits 'finish': statSync, resolve.
WriteFinish(r) ==
    /\ Alive
    /\ req[r].pc = "piping"
    /\ req[r].ws = "open"
    /\ req[r].written >= 1
    /\ LET q == [req[r] EXCEPT !.ws = "closed"]
           name == q.fname
       IN  IF name \in DOMAIN files
           THEN /\ files' = [files EXCEPT ![name].complete = TRUE]
                /\ req' = [req EXCEPT ![r] =
                             resolveDownload(q, [filename |-> name,
                                                 filesize |-> files[name].bytes,
                                                 platform |-> platformOf(r),
                                                 title |-> q.info.title])]
           ELSE /\ files' = files
                /\ req' = IF service = "direct"
                          THEN [req EXCEPT ![r] = reject(q, Err("PersistFailed", "fs"))]
                          ELSE crashAll(req, r)
    /\ UNCHANGED <<arg, out, input, tags, service, installed, ytDlpAvailable, probe, clock>>

\* The source stream emits 'error'.
SourceError(r) ==
    /\ Alive
    /\ req[r].pc = "piping"
    /\ req' = IF onSourceError(service, platformOf(r)) = "unlink"
              THEN [req EXCEPT ![r] =
                      [reject(req[r], Err("StreamError", req[r].adapter)) EXCEPT !.unlink = TRUE]]
              ELSE crashAll(req, r)
    /\ UNCHANGED <<arg, out, input, tags, service, installed, ytDlpAvailable, probe, clock, files>>

\* The variant of the write-error handling that treats the failed write like
\* a failed backend and goes on to the yt-dlp download when it is available.
WriteErrorFallsBack(r) ==
    /\ Alive
    /\ req[r].pc = "piping"
    /\ req[r].ws \in {"opening", "open"}
    /\ req' = [req EXCEPT ![r] =
                 IF service = "ytdlp" /\ ytDlpAvailable
                 THEN [downloadWithYtDlpBegin(req[r], "youtube", clock) EXCEPT !.ws = "failed"]
                 ELSE [reject(req[r], Err("PersistFailed", "fs")) EXCEPT !.ws = "failed"]]
    /\ UNCHANGED <<arg, out, input, tags, service, installed, ytDlpAvailable, probe, clock, files>>

\* The write stream emits 'error' (the open or a write failed).
WriteError(r) ==
    /\ Alive
    /\ req[r].pc = "piping"
    /\ req[r].ws \in {"opening", "open"}
    /\ req' = [req EXCEPT ![r] =
                 [reject(req[r], Err("PersistFailed", "fs")) EXCEPT
                     !.ws = "failed",
                     !.unlink = (onWriteError(service, platformOf(r)) = "unlink")]]
    /\ UNCHANGED <<arg, out, input, tags, service, installed, ytDlpAvailable, probe, clock, files>>

\* fs.unlink(filePath, () => {}) completes; its error, if any, is ignored.
UnlinkDone(r) ==
    /\ Alive
    /\ req[r].unlink
    /\ files' = remove(files, req[r].fname)
    /\ req' = [req EXCEPT ![r].unlink = FALSE]
    /\ UNCHANGED <<arg, out, input, tags, service, installed, ytDlpAvailable, probe, clock>>

\* The yt-dlp download process writes a chunk.
ExecWrites(r) ==
    /\ Alive
    /\ req[r].pc = "exec"
    /\ req[r].written < MaxChunks
    /\ files' = partWritten(files, req[r].fname, r, clock)
    /\ req' = [req EXCEPT ![r].written = @ + 1]
    /\ UNCHANGED <<arg, out, input, tags, service, installed, ytDlpAvailable, probe, clock>>

\* downloadWithYtDlp / downloadSnapchat when the yt-dlp run failed.
execFailed(svc, q, e) ==
    IF svc = "ytdlp" /\ q.fname.pre = "snapchat"
    THEN reject(q, Err("BackendUnavailable", "none"))
    ELSE reject(q, e)

\* The files the scan after the yt-dlp run takes for the download.
\* part_003:331-337  startsWith(platform) && includes(timestamp), newest
\* first; routes.js:310-311  the first name that includes safeTitle.
scanCandidates(svc, f, name) ==
    IF svc = "ytdlp"
    THEN LET matches == {n \in DOMAIN f : n.pre = name.pre /\ n.suffix = name.suffix}
         IN  {n \in matches : \A m \in matches : f[m].mtime <= f[n].mtime}
    ELSE {n \in DOMAIN f : includes(n.stem, name.stem)}

\* The yt-dlp download process exits; on exit code 0 the handler scans the
\* directory for the file.
ExecExits(r) ==
    /\ Alive
    /\ req[r].pc = "exec"
    /\ \E ok \in BOOLEAN :
          /\ ok => req[r].written >= 1
          /\ IF ok
             THEN LET f2 == partRenamed(files, req[r].fname)
                      found == scanCandidates(service, f2, req[r].fname)
                  IN  /\ files' = f2
                      /\ IF found = {}
                         THEN req' = [req EXCEPT ![r] =
                                        execFailed(service, settle(req[r], ok),
                                                   Err("FileNotFound", "ytdlp"))]
                         ELSE \E n \in found :
                                 req' = [req EXCEPT ![r] =
                                           resolveDownload(settle(req[r], ok),
                                               [filename |-> n,
                                                filesize |-> f2[n].bytes,
                                                platform |-> IF service = "ytdlp" THEN req[r].fname.pre
                                                             ELSE req[r].info.platform,
                                                title |-> IF service = "ytdlp" THEN << >>
                                                          ELSE req[r].info.title])]
             ELSE /\ files' = files
                  /\ req' = [req EXCEPT ![r] =
                               execFailed(service, settle(req[r], ok),
                                          Err("ExtractionFailed", "ytdlp"))]
    /\ UNCHANGED <<arg, out, input, tags, service, installed, ytDlpAvailable, probe, clock>>

\* part_003:322-325: exec's 120 s timeout kills the yt-dlp process.
ExecTimeout(r) ==
    /\ Alive
    /\ service = "ytdlp"
    /\ req[r].pc = "exec"
    /\ req' = [req EXCEPT ![r] = execFailed(service, settle(req[r], FALSE), Err("Timeout", "ytdlp"))]
    /\ UNCHANGED <<arg, out, input, tags, service, installed, ytDlpAvailable, probe, clock, files>>

\* --------------------------------------------------------- specification
Tools(svc) ==
    CASE svc = "ytdlp" -> {"yt-dlp"}
      [] svc = "scraper" -> {"instatouch", "tiktok-downloader"}
      [] svc = "direct" -> {"instagram-url-direct", "tiktok-scraper"}
      [] OTHER -> {}

EmptyDir == [n \in {} |-> NewFile("r1", 0)]

NotClassified == [ytdlp |-> "none", scraper |-> "none", spawn |-> "none"]

Init ==
    /\ arg = NoArg
    /\ out = NoOut
    /\ input = << >>
    /\ tags = NotClassified
    /\ service \in Services
    /\ installed \in SUBSET Tools(service)
    /\ ytDlpAvailable = FALSE
    /\ probe = IF service = "ytdlp" THEN "inflight" ELSE "done"
    /\ clock = 0
    /\ files = EmptyDir
    /\ req = [r \in Reqs |-> IdleReq]

Next ==
    \/ ProbeDone
    \/ Tick
    \/ \E r \in Reqs : Start(r)
    \/ \E r \in Reqs : AdapterReturns(r)
    \/ \E r \in Reqs : ConnectReturns(r)
    \/ \E r \in Reqs : AxiosTimeout(r)
    \/ \E r \in Reqs : FileOpened(r)
    \/ \E r \in Reqs : SourceData(r)
    \/ \E r \in Reqs : WriteFinish(r)
    \/ \E r \in Reqs : SourceError(r)
    \/ \E r \in Reqs : WriteError(r)
    \/ \E r \in Reqs : UnlinkDone(r)
    \/ \E r \in Reqs : ExecWrites(r)
    \/ \E r \in Reqs : ExecExits(r)
    \/ \E r \in Reqs : ExecTimeout(r)

Spec == Init /\ [][Next]_vars

\* What the runtime guarantees to happen: timers fire, the local file
\* system answers, time passes.  That a remote service or a yt-dlp process
\* ever answers, delivers data or ends is not guaranteed.
Fairness ==
    /\ WF_vars(ProbeDone)
    /\ WF_vars(Tick)
    /\ \A r \in Reqs : WF_vars(ExecTimeout(r))
    /\ \A r \in Reqs : WF_vars(AxiosTimeout(r))
    /\ \A r \in Reqs : WF_vars(FileOpened(r))
    /\ \A r \in Reqs : WF_vars(UnlinkDone(r))

SpecLive == Spec /\ Fairness

\* ------------------------------------------- the classifier on its own
InitClassify ==
    /\ arg = NoArg
    /\ out = NoOut
    /\ input \in SampleUrls
    /\ tags = NotClassified
    /\ service = "ytdlp"
    /\ installed = {}
    /\ ytDlpAvailable = FALSE
    /\ probe = "done"
    /\ clock = 0
    /\ files = EmptyDir
    /\ req = [r \in Reqs |-> IdleReq]

\* detectPlatform(url) of each service applied to the input.
Classify ==
    /\ tags = NotClassified
    /\ tags' = [ytdlp |-> detectPlatform(input),
                scraper |-> detectPlatformScraper(input),
                spawn |-> detectPlatformSpawn(input)]
    /\ UNCHANGED <<arg, out, input, service, installed, ytDlpAvailable, probe, clock, files, req>>

NextClassify == Classify

SpecClassify == InitClassify /\ [][NextClassify]_vars

\* ================================================================ claims
started(r) == req[r].pc # "idle"

infoCalls(r) == SelectSeq(req[r].calls, LAMBDA c : c.phase = "info")

\* The name is the target of a write stream that is open or being opened,
\* or the .part file of a running yt-dlp process.
WrittenBy(rq, n) ==
    \E x \in Reqs :
        \/ rq[x].pc = "piping" /\ rq[x].ws \in {"opening", "open"} /\ rq[x].fname = n
        \/ rq[x].pc = "exec" /\ PartOf(rq[x].fname) = n

BeingWritten(n) == WrittenBy(req, n)

\* C1: a request for a URL that the service's detectPlatform maps to
\* `unknown` has failed, with the unsupported-platform error (or the
\* invalid-URL error of the validation that precedes classification), as
\* soon as the handler has been entered, without any adapter or external
\* tool having been called and without a MediaInfo record.
C1_UnknownFailsBeforeAnyAdapter ==
    \A r \in Reqs :
        (started(r) /\ Classified[service][req[r].url] = "unknown")
            => /\ req[r].calls = << >>
               /\ req[r].outcome = "error"
               /\ req[r].err.kind \in {"UnsupportedPlatform", "InvalidInput"}
               /\ req[r].info = NoInfo

\* C2: the metadata adapters are tried in order and the chain stops at the
\* first success: no metadata call follows a call that succeeded, and when
\* the first adapter failed and the second succeeded the record returned is
\* the second adapter's.
C2_FirstSuccessEndsTheChain ==
    \A r \in Reqs :
        LET c == infoCalls(r) IN
        /\ \A i \in 1..Len(c) : c[i].ok = "ok" => i = Len(c)
        /\ (/\ req[r].op = "info"
            /\ req[r].outcome = "ok"
            /\ Len(c) = 2
            /\ c[1].ok = "failed"
            /\ c[2].ok = "ok") => req[r].info.source = c[2].adapter

\* Every adapter the handler had for the URL's platform failed or was
\* unavailable: the request is over, each call it made failed, and a
\* request that made no call at all found yt-dlp unavailable.
AllAdaptersFailed(r) ==
    /\ req[r].pc = "done"
    /\ req[r].url \in ValidUrls
    /\ Classified[service][req[r].url] \in Supported(service) \ {"unknown"}
    /\ \A i \in 1..Len(req[r].calls) : req[r].calls[i].ok = "failed"
    /\ req[r].calls = << >> => service = "ytdlp"

\* C3: when every adapter of the URL's platform has failed or is
\* unavailable, the request ends in failure, not in a success record, and
\* the download directory holds no file the request wrote.
C3_AllAdaptersFailedMeansFailureAndNoFile ==
    \A r \in Reqs :
        AllAdaptersFailed(r)
            => /\ req[r].outcome = "error"
               /\ \A n \in DOMAIN files : r \notin files[n].by

\* The request failed on a stream error and nothing of it is still pending:
\* the open of its write stream and its unlink have completed.
StreamFailureSettled(r) ==
    /\ req[r].pc = "done"
    /\ req[r].outcome = "error"
    /\ req[r].err.kind \in {"StreamError", "PersistFailed"}
    /\ req[r].ws # "opening"
    /\ ~req[r].unlink

\* C4: once a download that failed on a source-stream or write-stream
\* error has terminated, no file with its filename is in the download
\* directory.
C4_NoFileAfterStreamFailure ==
    \A r \in Reqs :
        StreamFailureSettled(r) => req[r].fname \notin DOMAIN files

\* The step resolves the download of r with a success result.
resolvesDownload(r) ==
    /\ req[r].op = "download"
    /\ req[r].outcome = "pending"
    /\ req'[r].outcome = "ok"

\* C5: when a download resolves with success, the file it names exists, is
\* completely written (no stream or process is still writing it) and has
\* the size the result reports.
C5_SuccessOnlyForCompleteFile ==
    [][\A r \in Reqs :
          resolvesDownload(r)
              => LET n == req'[r].result.filename IN
                 /\ n \in DOMAIN files'
                 /\ files'[n].complete
                 /\ ~WrittenBy(req', n)
                 /\ req'[r].result.filesize = files'[n].bytes]_vars

\* C6: two downloads of the same URL that both succeeded returned distinct
\* filenames, and both files are in the directory with nonzero size.
C6_ConcurrentDownloadsDistinctFiles ==
    \A r1 \in Reqs, r2 \in Reqs :
        (/\ r1 # r2
         /\ req[r1].op = "download" /\ req[r2].op = "download"
         /\ req[r1].url = req[r2].url
         /\ req[r1].outcome = "ok" /\ req[r2].outcome = "ok")
            => /\ req[r1].result.filename # req[r2].result.filename
               /\ \A r \in {r1, r2} :
                     /\ req[r].result.filename \in DOMAIN files
                     /\ files[req[r].result.filename].bytes > 0

\* C7: every file in the download directory is complete and is not being
\* written.
C7_DirectoryHoldsOnlyCompleteFiles ==
    \A n \in DOMAIN files : files[n].complete /\ ~BeingWritten(n)

\* ------------------------------------------------ the fragment tables
\* part_003:219-222
YtdlpTable ==
    << [tag |-> "youtube", frags |-> {F_youtube_com, F_youtu_be}],
       [tag |-> "instagram", frags |-> {F_instagram_com}],
       [tag |-> "tiktok", frags |-> {F_tiktok_com, F_vm_tiktok_com}],
       [tag |-> "snapchat", frags |-> {F_snapchat_com}] >>

\* part_005:50-57
ScraperTable ==
    YtdlpTable \o
    << [tag |-> "facebook", frags |-> {F_facebook_com, F_fb_watch}],
       [tag |-> "twitter", frags |-> {F_x_com, F_twitter_com}],
       [tag |-> "reddit", frags |-> {F_reddit_com}],
       [tag |-> "twitch", frags |-> {F_twitch_tv}] >>

\* downloader.routes.js:211-217
SpawnTable ==
    << [tag |-> "youtube", frags |-> {F_youtube_com, F_youtu_be}],
       [tag |-> "instagram", frags |-> {F_instagram_com}],
       [tag |-> "tiktok", frags |-> {F_tiktok_com}],
       [tag |-> "facebook", frags |-> {F_facebook_com}],
       [tag |-> "twitter", frags |-> {F_x_com, F_twitter_com}],
       [tag |-> "reddit", frags |-> {F_reddit_com}],
       [tag |-> "twitch", frags |-> {F_twitch_tv}] >>

Tables == [ytdlp |-> YtdlpTable, scraper |-> ScraperTable, spawn |-> SpawnTable]

Classifiers == {"ytdlp", "scraper", "spawn"}

classified == tags # NotClassified

\* A letter paired with itself in the other case.
CasePairs ==
    {<<UpperCase[i], LowerCase[i]>> : i \in 1..26} \cup {<<LowerCase[i], UpperCase[i]>> : i \in 1..26}

\* The two characters are the same letter in either case, or equal.
sameLetter(a, b) == a = b \/ <<a, b>> \in CasePairs

\* frag occurs in s at offset i in some letter casing.
occursAt(s, frag, i) ==
    /\ i + Len(frag) <= Len(s)
    /\ \A j \in 1..Len(frag) : sameLetter(s[i + j], frag[j])

containsAnyCase(s, frag) == \E i \in 0..Len(s) : occursAt(s, frag, i)

\* The input contains a fragment of the table's i-th entry, in any casing.
entryMatches(table, i, s) == \E f \in table[i].frags : containsAnyCase(s, f)

\* C8: an input that contains, in any letter casing, a fragment of the
\* youtube, instagram, tiktok or snapchat entry of a service's table and no
\* fragment of an earlier entry is given that entry's tag.
C8_FragmentInAnyCasingYieldsTag ==
    classified =>
        \A svc \in Classifiers :
            \A i \in 1..Len(Tables[svc]) :
                (/\ Tables[svc][i].tag \in {"youtube", "instagram", "tiktok", "snapchat"}
                 /\ entryMatches(Tables[svc], i, input)
                 /\ \A j \in 1..(i - 1) : ~entryMatches(Tables[svc], j, input))
                    => tags[svc] = Tables[svc][i].tag

\* An input that spells the youtube fragment in mixed case only has been
\* classified, as youtube by each service.
C8_MixedCaseYoutubeClassified ==
    /\ classified
    /\ includes(input, P_YouTube_com)
    /\ ~includes(input, F_youtube_com)
    /\ tags.ytdlp = "youtube"
    /\ tags.scraper = "youtube"
    /\ tags.spawn = "youtube"

\* C9: detectPlatform returns a platform tag for every string, and
\* `unknown` for a string that contains no fragment of the table.
C9_ClassifierTotalUnknownByDefault ==
    classified =>
        \A svc \in Classifiers :
            /\ tags[svc] \in PlatformTags
            /\ (\A i \in 1..Len(Tables[svc]) : ~entryMatches(Tables[svc], i, input))
                  => tags[svc] = "unknown"

\* An input without any fragment (not even a URL) has been classified.
C9_UnmatchedInputClassifiedUnknown ==
    /\ classified
    /\ includes(input, P_example_org)
    /\ \A i \in 1..Len(ScraperTable) : ~entryMatches(ScraperTable, i, input)
    /\ tags.ytdlp = "unknown"
    /\ tags.scraper = "unknown"

\* The characters a host name is written with.
isHostChar(c) == isAlpha(c) \/ isDigit(c) \/ c = "-"

\* frag occurs in s as a domain: the occurrence does not continue a longer
\* host label to its left.
containsDomain(s, frag) ==
    \E i \in 0..Len(s) :
        /\ occursAt(s, frag, i)
        /\ i > 0 => ~isHostChar(s[i])

\* C10: an input is given a platform's tag only when it contains one of
\* that platform's fragments as a domain, and the tag is that of the first
\* table entry with a fragment in the input.
C10_TagOnlyForOwnDomainFirstEntryWins ==
    classified =>
        \A svc \in Classifiers :
            \A i \in 1..Len(Tables[svc]) :
                tags[svc] = Tables[svc][i].tag
                    => /\ \E f \in Tables[svc][i].frags : containsDomain(input, f)
                       /\ \A j \in 1..(i - 1) : ~entryMatches(Tables[svc], j, input)

\* ================================================= the helpers on their own
\* Largest duration of the contiguous range of sample durations, in seconds.
MaxSeconds == 3725

\* Durations an adapter may report: none, and whole seconds (a range that
\* crosses the hour, and two with hours of two digits).
SampleDurations ==
    {JsNull, JsUndefined} \cup {Num(n) : n \in 0..MaxSeconds} \cup {Num(36061), Num(359999)}

FormatArgs == {[NoArg EXCEPT !.fn = "formatDuration", !.seconds = d] : d \in SampleDurations}

\* formatDuration(seconds) applied to the argument.
FormatDuration ==
    /\ arg.fn = "formatDuration"
    /\ ~out.done
    /\ out' = [NoOut EXCEPT !.done = TRUE, !.text = formatDuration(arg.seconds)]
    /\ UNCHANGED <<arg, input, tags, service, installed, ytDlpAvailable, probe, clock, files, req>>

\* parseInt(value) of a number, or of a missing value
parseInt(v) == IF v.kind = "number" THEN v ELSE JsNaN

\* value || null
orNull(v) == IF falsy(v) THEN JsNull ELSE v

\* The places a metadata record is built from an adapter's duration.
RecordSites == {"ytdlp", "ytdlcore", "ytdlcoreLegacy", "instatouch", "oembed"}

\* The duration and durationFormatted fields of the record built at `site`
\* from the duration `d` the adapter reported:
\*   "ytdlp"          part_003:291-292 (and downloader.routes.js:247-248)
\*   "ytdlcore"       part_005:102-103
\*   "ytdlcoreLegacy" part_003:715-716 (lengthSeconds is kept as reported)
\*   "instatouch"     part_005:232 (the record has no durationFormatted)
\*   "oembed"         part_005:133-134
durationFields(site, d) ==
    CASE site = "ytdlp" ->
            [duration |-> orNull(d), durationFormatted |-> formatDuration(d)]
      [] site = "ytdlcore" ->
            [duration |-> parseInt(d), durationFormatted |-> formatDuration(parseInt(d))]
      [] site = "ytdlcoreLegacy" ->
            [duration |-> IF d.kind = "number" THEN d ELSE JsNull,
             durationFormatted |-> formatDuration(parseInt(d))]
      [] site = "instatouch" ->
            [duration |-> orNull(d), durationFormatted |-> undefined]
      [] OTHER ->
            [duration |-> JsNull, durationFormatted |-> null]

RecordArgs ==
    {[NoArg EXCEPT !.fn = "durationFields", !.site = site, !.seconds = d] :
        site \in RecordSites, d \in {JsNull, JsUndefined, Num(0), Num(212), Num(3725)}}

\* A metadata record's duration fields are built from the adapter's answer.
BuildDurationFields ==
    /\ arg.fn = "durationFields"
    /\ ~out.done
    /\ LET f == durationFields(arg.site, arg.seconds) IN
       out' = [NoOut EXCEPT !.done = TRUE, !.duration = f.duration,
                            !.durationFormatted = f.durationFormatted]
    /\ UNCHANGED <<arg, input, tags, service, installed, ytDlpAvailable, probe, clock, files, req>>

\* ---- the title sanitizers applied to a title, and once more to the result
\* Longest run of characters after the cut in a sample title.
MaxTail == 2

Rep(c, n) == [i \in 1..n |-> c]

\* Titles around the two truncation limits, with one separator character
\* (or two) at the limit, and a few short ones.
SampleTitles ==
    {Rep("a", k) \o mid \o Rep("b", j) :
        k \in {SliceLimit - 2, SliceLimit - 1, SliceLimit,
               SanitizeLimit - 2, SanitizeLimit - 1, SanitizeLimit},
        mid \in {<< >>, <<" ">>, <<"!", "?">>, <<"-">>, <<"_">>},
        j \in 0..MaxTail}
    \cup {T_cat2, T_reel, T_placeholder, << >>, <<"_", "a", " ", " ", "b", "_">>}

Sanitizers == {"sanitizeFilename", "sanitizeFilenameScraper", "sanitizeInline"}

\* The safeTitle each download handler computes from the record's title.
safeTitle(site, title) ==
    CASE site = "sanitizeFilename" -> sanitizeFilename(title)
      [] site = "sanitizeFilenameScraper" -> sanitizeFilenameScraper(title)
      [] OTHER -> sanitizeInline(title)

SanitizeArgs ==
    {[NoArg EXCEPT !.fn = "safeTitle", !.site = site, !.title = t] :
        site \in Sanitizers, t \in SampleTitles}

Sanitize ==
    /\ arg.fn = "safeTitle"
    /\ ~out.done
    /\ out' = [NoOut EXCEPT !.done = TRUE, !.text = safeTitle(arg.site, arg.title)]
    /\ UNCHANGED <<arg, input, tags, service, installed, ytDlpAvailable, probe, clock, files, req>>

\* The sanitized title is given to the same sanitizer again.
SanitizeAgain ==
    /\ arg.fn = "safeTitle"
    /\ out.done
    /\ ~out.twice
    /\ out' = [out EXCEPT !.twice = TRUE, !.again = safeTitle(arg.site, out.text)]
    /\ UNCHANGED <<arg, input, tags, service, installed, ytDlpAvailable, probe, clock, files, req>>

\* ------- the `quality` of a download request on its way to the adapter
Q_720p ==
    <<"7", "2", "0", "p">>
Q_lowest ==
    <<"l", "o", "w", "e", "s", "t">>
Q_360p ==
    <<"3", "6", "0", "p">>
Q_best ==
    <<"b", "e", "s", "t">>
Q_highest ==
    <<"h", "i", "g", "h", "e", "s", "t">>

\* A parameter with a default value: the default stands in for undefined.
defaultTo(v, d) == IF v.kind = "undefined" THEN d ELSE v

\* options.quality: a string or an empty object has no such property.
qualityOf(options) ==
    IF options.kind = "object" /\ options.quality # undefined
    THEN JsText(options.quality)
    ELSE JsNothing

\* downloadMedia(url, second): what it hands to downloadYoutube as quality.
\* part_003:622-632 (options = {}; options.quality), part_005:537-546
\* (quality = 'best'); part_005:721 and routes.js:280 take no second
\* parameter.
downloadMediaQuality(svc, second) ==
    CASE svc = "ytdlp" -> qualityOf(defaultTo(second, JsObject(undefined)))
      [] svc = "scraper" -> defaultTo(second, JsText(Q_best))
      [] OTHER -> JsNothing

\* The quality option the YouTube download adapter is called with:
\* play.stream(url, {quality: 2}) (part_003:421-424), ytdl(url, {quality:
\* 'highest'}) (part_005:162-165, 738); the spawned yt-dlp gets no format.
\* downloadYoutube's parameter (quality = '360p') is not used.
downloadYoutubeQuality(svc, quality) ==
    LET parameter == defaultTo(quality, JsText(Q_360p)) IN
    CASE svc = "ytdlp" -> JsNumber(<<"2">>)
      [] svc \in {"scraper", "direct"} -> JsText(Q_highest)
      [] OTHER -> JsNothing

\* downloadUrl of the controller: `const { url, quality } = req.body`, then
\* downloadMedia(url, quality); the quality option the platform's download
\* adapter ends up with.
adapterQuality(svc, platform, bodyQuality) ==
    IF platform = "youtube"
    THEN downloadYoutubeQuality(svc, downloadMediaQuality(svc, bodyQuality))
    ELSE JsNothing

QualityArgs ==
    {[NoArg EXCEPT !.fn = "quality", !.site = svc, !.platform = p, !.quality = q] :
        svc \in Services, p \in {"youtube", "instagram", "tiktok"},
        q \in {JsNothing, JsText(Q_720p), JsText(Q_lowest)}}

ForwardQuality ==
    /\ arg.fn = "quality"
    /\ ~out.done
    /\ out' = [NoOut EXCEPT !.done = TRUE,
                            !.quality = adapterQuality(arg.site, arg.platform, arg.quality)]
    /\ UNCHANGED <<arg, input, tags, service, installed, ytDlpAvailable, probe, clock, files, req>>

HelperArgs == FormatArgs \cup RecordArgs \cup SanitizeArgs \cup QualityArgs

InitHelpers ==
    /\ arg \in HelperArgs
    /\ out = NoOut
    /\ input = << >>
    /\ tags = NotClassified
    /\ service = "ytdlp"
    /\ installed = {}
    /\ ytDlpAvailable = FALSE
    /\ probe = "done"
    /\ clock = 0
    /\ files = EmptyDir
    /\ req = [r \in Reqs |-> IdleReq]

NextHelpers ==
    \/ FormatDuration
    \/ BuildDurationFields
    \/ Sanitize
    \/ SanitizeAgain
    \/ ForwardQuality

SpecHelpers == InitHelpers /\ [][NextHelpers]_vars

\* The number a sequence of decimal digits writes.
RECURSIVE numberOf(_)
numberOf(s) ==
    IF s = << >> THEN 0
    ELSE numberOf(SubSeq(s, 1, Len(s) - 1)) * 10
           + (CHOOSE d \in 0..9 : Digits[d + 1] = s[Len(s)])

allDigits(s) == Len(s) >= 1 /\ \A i \in 1..Len(s) : isDigit(s[i])

colons(t) == {i \in 1..Len(t) : t[i] = ":"}

\* t reads M:SS with the value of minutes m and of seconds sec.
readsMSS(t, m, sec) ==
    \E i \in colons(t) :
        LET M == SubSeq(t, 1, i - 1)
            SS == SubSeq(t, i + 1, Len(t))
        IN  /\ colons(t) = {i}
            /\ allDigits(M) /\ allDigits(SS)
            /\ Len(SS) = 2
            /\ Len(M) = 1 \/ M[1] # "0"
            /\ numberOf(M) = m /\ numberOf(SS) = sec

\* t reads H:MM:SS with the values h, m and sec.
readsHMMSS(t, h, m, sec) ==
    \E i \in colons(t), j \in colons(t) :
        LET H == SubSeq(t, 1, i - 1)
            MM == SubSeq(t, i + 1, j - 1)
            SS == SubSeq(t, j + 1, Len(t))
        IN  /\ i < j /\ colons(t) = {i, j}
            /\ allDigits(H) /\ allDigits(MM) /\ allDigits(SS)
            /\ Len(MM) = 2 /\ Len(SS) = 2
            /\ Len(H) = 1 \/ H[1] # "0"
            /\ numberOf(H) = h /\ numberOf(MM) = m /\ numberOf(SS) = sec

C12_DurationFormattedNullIffDurationNull ==
    (out.done /\ arg.fn = "durationFields") =>
        (out.durationFormatted \in {null, undefined} <=> out.duration.kind # "number")

\* -------------------------------------------------- the returned records
\* C13: every MediaInfo a request obtained carries a platform that is one
\* of youtube, instagram, tiktok, snapchat and equals the tag detectPlatform
\* gave for the request's URL, whichever adapter built the record.
C13_PlatformIsTheClassifierTag ==
    \A r \in Reqs :
        req[r].info # NoInfo =>
            /\ req[r].info.platform \in {"youtube", "instagram", "tiktok", "snapchat"}
            /\ req[r].info.platform = platformOf(r)

\* C14: the sanitized title a download handler builds the filename from
\* holds only letters, digits, "_" and "-", and is at most 80 characters
\* long (before the suffix and the extension are appended).
C14_SafeTitleCharsetAndLength ==
    (arg.fn = "safeTitle" /\ out.done) =>
        /\ \A i \in 1..Len(out.text) : isNameChar(out.text[i])
        /\ Len(out.text) <= 80

\* C15: sanitizing a sanitized title returns it unchanged, also when the
\* truncation cut the title right after an underscore.
C15_SanitizationIdempotent ==
    (arg.fn = "safeTitle" /\ out.twice) => out.again = out.text

\* ------------------------------------------------------ the yt-dlp probe
\* C16: the probe of yt-dlp runs once, at module load and not in a request:
\* the flag ytDlpAvailable is written only by the step that completes the
\* probe, that step changes no request, and once the probe is done neither
\* the probe runs again nor does any getInfo / downloadMedia step change the
\* flag.
C16_ProbeOnceFlagWrittenOnce ==
    [][/\ probe = "done" => (probe' = "done" /\ ytDlpAvailable' = ytDlpAvailable)
       /\ (probe' # probe \/ ytDlpAvailable' # ytDlpAvailable) =>
              (probe = "inflight" /\ probe' = "done" /\ req' = req)]_vars

\* A request that used yt-dlp has finished after the probe found it.
C16_RequestServedWithCachedFlag ==
    /\ service = "ytdlp"
    /\ probe = "done"
    /\ ytDlpAvailable
    /\ \E r \in Reqs :
          /\ req[r].outcome = "ok"
          /\ \E i \in 1..Len(req[r].calls) : req[r].calls[i].adapter = "ytdlp"

\* ----------------------------------------------------------- time limits
\* C17: every download request that was started reaches a terminal outcome
\* (a result or an error), also when the remote side never answers or the
\* stream stalls: no request stays pending forever.
C17_DownloadEventuallySettles ==
    \A r \in Reqs : (req[r].op = "download") ~> (req[r].pc = "done")

\* ------------------------------------------------------- malformed URLs
\* C18: for a malformed URL getInfo and downloadMedia fail with the
\* invalid-input error at once: no adapter or external tool is called for
\* the request and no fallback is started.
C18_MalformedUrlRejectedBeforeAnyAdapter ==
    \A r \in Reqs :
        (req[r].pc # "idle" /\ req[r].url \notin ValidUrls) =>
            /\ req[r].calls = << >>
            /\ req[r].pc = "done"
            /\ req[r].outcome = "error"
            /\ req[r].err.kind = "InvalidInput"

\* ---------------------------------------------------- download results
\* C19: in a download request the MediaInfo is resolved before any download
\* adapter is attempted, and a successful result carries that MediaInfo's
\* title and platform; no successful result is without a title.
C19_InfoBeforeDownloadAndResultCarriesIt ==
    \A r \in Reqs :
        /\ (\E i \in 1..Len(req[r].calls) : req[r].calls[i].phase = "download") =>
                req[r].info # NoInfo
        /\ (req[r].op = "download" /\ req[r].outcome = "ok") =>
                /\ req[r].result.title = req[r].info.title
                /\ req[r].result.platform = req[r].info.platform
                /\ req[r].result.title # << >>

\* ------------------------------------------------------------- quality
\* C20: the quality given in the body of a download request reaches the
\* YouTube download adapter unchanged, and the adapters of the other
\* platforms get no quality whatever the body says.
C20_QualityForwardedToYoutubeAdapterOnly ==
    (arg.fn = "quality" /\ out.done) =>
        IF arg.platform = "youtube"
        THEN arg.quality.kind = "string" => out.quality = arg.quality
        ELSE out.quality = JsNothing

\* ------------------------------------------------------- the controller
\* analyzeUrl / downloadUrl: `await` of the service call inside try/catch;
\* res.status(200).json({success: true, data}) when it resolved,
\* res.status(400).json({success: false, error}) when it rejected.  While
\* the call is pending, and when the process died, nothing was sent.
NoResponse == [sent |-> FALSE, status |-> 0, success |-> FALSE]

response(q) ==
    CASE q.outcome = "ok" -> [sent |-> TRUE, status |-> 200, success |-> TRUE]
      [] q.outcome = "error" -> [sent |-> TRUE, status |-> 400, success |-> FALSE]
      [] OTHER -> NoResponse

\* C21: every request whose handling has ended was answered with a
\* structured response, success=true exactly when the service call
\* resolved; no failure of the service ends a request without a response.
C21_EveryEndedRequestWasAnswered ==
    \A r \in Reqs :
        req[r].pc = "done" =>
            /\ response(req[r]).sent
            /\ response(req[r]).success <=> req[r].outcome = "ok"

\* ------------------------------------------------------------- snapchat
\* C22: a download request for a URL classified as snapchat never succeeds
\* and never puts a file into the download directory, with or without
\* yt-dlp.
C22_SnapchatDownloadNeverSucceeds ==
    \A r \in Reqs :
        (req[r].op = "download" /\ platformOf(r) = "snapchat") =>
            /\ req[r].outcome # "ok"
            /\ \A n \in DOMAIN files : r \notin files[n].by

\* ----------------------------------------------------- order of attempts
\* C23: within one request each adapter's info operation is invoked at most
\* once and each adapter's download operation at most once, and an adapter
\* that has failed is not attempted again in the request.
C23_NoAdapterAttemptedTwice ==
    \A r \in Reqs :
        \A i, j \in 1..Len(req[r].calls) :
            i < j =>
                /\ ~(/\ req[r].calls[i].adapter = req[r].calls[j].adapter
                     /\ req[r].calls[i].phase = req[r].calls[j].phase)
                /\ req[r].calls[i].ok = "failed" =>
                       req[r].calls[j].adapter # req[r].calls[i].adapter

\* C24: in a YouTube download of the service with the yt-dlp fallback, a
\* play-dl download attempt that fails by a backend failure (play.stream
\* rejects, or the source stream errors after the write began) while yt-dlp
\* is available does not end the request: the yt-dlp download comes next.
C24_FailedPlayDlDownloadFallsBackToYtDlp ==
    [][\A r \in Reqs :
          ~(/\ service = "ytdlp"
            /\ ytDlpAvailable
            /\ req[r].adapter = "playdl"
            /\ req[r].pc \in {"connect", "piping"}
            /\ req'[r].pc = "done"
            /\ req'[r].err.kind \in {"ExtractionFailed", "StreamError"})]_vars

\* ----------------------------------------------------------- disk errors
\* C25: an error of the write stream ends the request in failure at once:
\* the step in which the write stream fails rejects the request with the
\* persist failure and calls no adapter, and no adapter is called for the
\* request afterwards.
C25_WriteErrorEndsTheRequest ==
    [][\A r \in Reqs :
          /\ (req[r].ws # "failed" /\ req'[r].ws = "failed") =>
                /\ req'[r].pc = "done"
                /\ req'[r].outcome = "error"
                /\ req'[r].err.kind = "PersistFailed"
                /\ req'[r].calls = req[r].calls
          /\ req[r].ws = "failed" =>
                /\ req'[r].pc = "done"
                /\ req'[r].outcome = "error"
                /\ req'[r].calls = req[r].calls]_vars

\* The write of a play-dl download failed while yt-dlp was available, and
\* the request ended without a yt-dlp download.
C25_WriteFailedWithFallbackAtHand ==
    /\ service = "ytdlp"
    /\ ytDlpAvailable
    /\ \E r \in Reqs :
          /\ req[r].ws = "failed"
          /\ req[r].err.kind = "PersistFailed"
          /\ \A i \in 1..Len(req[r].calls) :
                ~(req[r].calls[i].phase = "download" /\ req[r].calls[i].adapter = "ytdlp")

\* ------------------------------------------------------ after a timeout
\* C26: when the time limit of a download attempt has fired, the request
\* reports the failure only after every partial file the attempt wrote has
\* been removed: no file written by the request is left in the directory.
C26_NoPartialFileAfterTimeout ==
    \A r \in Reqs :
        req[r].err.kind = "Timeout" =>
            \A n \in DOMAIN files : r \notin files[n].by

\* ------------------------------------------------------- the last error
\* C27: when every adapter tried for the request has failed, the error the
\* request ends with is the error of the adapter that was attempted last.
C27_SurfacedErrorIsTheLastAdaptersError ==
    \A r \in Reqs :
        (AllAdaptersFailed(r) /\ req[r].calls # << >> /\ req[r].outcome = "error") =>
            req[r].err.from = req[r].calls[Len(req[r].calls)].adapter

\* ------------------------------------------------- the scan after yt-dlp
\* C28: the file a successful yt-dlp download reports, found by scanning
\* the download directory after yt-dlp exited, is a file of that request
\* alone: not one left by an earlier request, not one a concurrent request
\* wrote.
C28_ScanSelectsTheRequestsOwnFile ==
    [][\A r \in Reqs :
          (req[r].pc = "exec" /\ req'[r].outcome = "ok") =>
              /\ req'[r].result.filename \in DOMAIN files'
              /\ files'[req'[r].result.filename].by = {r}]_vars

\* ------------------------------------------- requests during the probe
\* C29: no request is decided on the flag's initial value while the probe
\* is in flight: where yt-dlp is installed, no request is refused for want
\* of yt-dlp and none is answered with the placeholder metadata without
\* yt-dlp having been tried.
C29_NoRequestDecidedOnTheInitialFlag ==
    \A r \in Reqs :
        (service = "ytdlp" /\ "yt-dlp" \in installed /\ req[r].calls = << >>) =>
            /\ req[r].err.kind # "BackendUnavailable"
            /\ req[r].info.source # "placeholder"

\* ------------------------------------------- getInfo and the directory
\* C30: getInfo leaves the download directory as it is: no step of a
\* getInfo request changes the directory, and no file in it was written by
\* a getInfo request.
C30_GetInfoLeavesTheDirectoryUnchanged ==
    /\ [](\A r \in Reqs :
            req[r].op = "info" => \A n \in DOMAIN files : r \notin files[n].by)
    /\ [][\A r \in Reqs :
            (req'[r].op = "info" /\ req'[r] # req[r]) => files' = files]_vars

\* A getInfo request that called an adapter has ended while the directory
\* holds a file of a download.
C30_InfoResolvedBesideADownload ==
    /\ files # EmptyDir
    /\ \E r \in Reqs :
          /\ req[r].op = "info"
          /\ req[r].pc = "done"
          /\ req[r].outcome = "ok"
          /\ req[r].calls # << >>
====
